---- MODULE Spec2Model ----
(***************************************************************************)
(* The recommender notebook uva-recommender-system.ipynb as a state        *)
(* machine: one action per code cell that binds a name, run top to bottom. *)
(* The pandas calls are modelled by what they compute on small tables.     *)
(*                                                                         *)
(* Conventions of the model                                                *)
(*  - userId, movieId, rating are small integers; a title is the integer   *)
(*    rank of the title string in lexicographic order, so that the sorted  *)
(*    column index pandas builds is the increasing order of the integers.  *)
(*  - a float cell is an exact reduced fraction <<n, d>> with d > 0, and   *)
(*    NaN is <<0, 0>>.                                                     *)
(*  - a correlation score is stored as the signed square of Pearson's r    *)
(*    (sign(r) * r^2, an exact fraction): r itself is irrational in        *)
(*    general, and x |-> sign(x) * x^2 is strictly increasing on [-1, 1]   *)
(*    and fixes -1, 0 and 1, so order, equality and "is exactly 1" are     *)
(*    those of r.  Float rounding is not modelled.                         *)
(*  - a genres string is a sequence of characters; "|" is the separator.   *)
(*  - the row index of a frame is kept as a set: no later step reads the   *)
(*    order of the rows.  The column index is a sequence.                  *)
(*  - the cells that only display (head, describe, print, the unassigned   *)
(*    sort_values of cell 14) bind no name and are left out.               *)
(*  - the library is a pandas that still accepts sum(level=0), that is a   *)
(*    release before 2.0; an empty merge pivots to an empty frame.         *)
(*  - an exception ends the run ("Run All" stops at the failing cell).     *)
(***************************************************************************)
EXTENDS Integers, Sequences, FiniteSets, TLC

VARIABLES pc, pandas_build, names, raised, ratings, movies, merged_data,
          movie_matrix, movie, collaborative_recommendation,
          movie_features, content_recommendation

vars == <<pc, pandas_build, names, raised, ratings, movies, merged_data,
          movie_matrix, movie, collaborative_recommendation,
          movie_features, content_recommendation>>

(***************************************************************************)
(* Bounds of the model.                                                    *)
(***************************************************************************)
\* most rows of ratings.csv
MaxRatings == 2
\* most rows of movies.csv when its genres vary
MaxGenreMovies == 3

UserIds == {1, 2}
MovieIds == {1, 2}
\* the titles the reader may ask about
Titles == {1, 2, 3}
\* the titles of the catalogues whose genres do not vary
PlainTitles == {1, 2}
RatingValues == {1, 2}
\* the genres strings "a", "b", "a|a" and "a|b"
GenreStrings == {<<"a">>, <<"b">>, <<"a", "|", "a">>, <<"a", "|", "b">>}

(***************************************************************************)
(* Arithmetic helpers.                                                     *)
(***************************************************************************)
Abs(x) == IF x < 0 THEN -x ELSE x

Sign(x) == IF x < 0 THEN -1 ELSE IF x = 0 THEN 0 ELSE 1

RECURSIVE GCD(_, _)
GCD(a, b) == IF b = 0 THEN a ELSE GCD(b, a % b)

LCM(a, b) == (a * b) \div GCD(a, b)

NaN == <<0, 0>>

IsNaN(q) == q[2] = 0

\* the fraction n / d in lowest terms, d > 0
Rat(n, d) ==
    LET g == GCD(Abs(n), d)
    IN  <<n \div g, d \div g>>

RatLess(p, q) == p[1] * q[2] < q[1] * p[2]

RECURSIVE SumSeq(_)
SumSeq(s) == IF s = <<>> THEN 0 ELSE Head(s) + SumSeq(Tail(s))

RECURSIVE SumOver(_, _)
SumOver(S, f) ==
    IF S = {} THEN 0
    ELSE LET x == CHOOSE y \in S : TRUE
         IN  f[x] + SumOver(S \ {x}, f)

RECURSIVE LCMOver(_, _)
LCMOver(S, f) ==
    IF S = {} THEN 1
    ELSE LET x == CHOOSE y \in S : TRUE
         IN  LCM(f[x], LCMOver(S \ {x}, f))

\* the elements of a set of integers in increasing order
RECURSIVE SortedSeq(_)
SortedSeq(S) ==
    IF S = {} THEN <<>>
    ELSE LET m == CHOOSE x \in S : \A y \in S : x <= y
         IN  <<m>> \o SortedSeq(S \ {m})

Range(s) == {s[i] : i \in 1..Len(s)}

RECURSIVE Reverse(_)
Reverse(s) == IF s = <<>> THEN <<>> ELSE Reverse(Tail(s)) \o <<Head(s)>>

SeqsUpTo(S, n) == UNION {[1..k -> S] : k \in 1..n}

(***************************************************************************)
(* The input files.                                                        *)
(***************************************************************************)
RatingRecords == [userId : UserIds, movieId : MovieIds, rating : RatingValues]

\* a genres field: the string read_csv returns, or the list str.split makes
StrField(s) == [kind |-> "str", val |-> s]

ListField(l) == [kind |-> "list", val |-> l]

GenreFields == {StrField(s) : s \in GenreStrings}

PlainMovieRecords ==
    [movieId : MovieIds, title : PlainTitles, genres : {StrField(<<"a">>)}]

\* the frame read_csv returns: a RangeIndex and the rows of the file
Table(rows) == [index |-> "range", rows |-> rows]

EmptyTable == Table(<<>>)

EmptyFrame == [index |-> {}, columns |-> <<>>, values |-> <<>>]

RatingTables == {Table(r) : r \in SeqsUpTo(RatingRecords, MaxRatings)}

\* a catalogue whose genres do not vary: any rows, as many as there are ids
PlainMovieTables ==
    {Table(m) : m \in SeqsUpTo(PlainMovieRecords, Cardinality(MovieIds))}

\* a catalogue whose genres vary: row i describes movieId i
GenreMovieTables ==
    {Table([i \in 1..Len(c) |->
               [movieId |-> i, title |-> c[i].title, genres |-> c[i].genres]]) :
        c \in SeqsUpTo([title : Titles, genres : GenreFields], MaxGenreMovies)}

\* the ratings file that is paired with the catalogues whose genres vary
GenreRatingTables == {Table(<<[userId |-> 1, movieId |-> 1, rating |-> 2]>>)}

\* the pairs of input files explored: every ratings file with every plain
\* catalogue, and one ratings file with every catalogue whose genres vary
MovieTablesFor(r) ==
    PlainMovieTables \cup (IF r \in GenreRatingTables THEN GenreMovieTables ELSE {})

(***************************************************************************)
(* import pandas as pd.  The one behaviour of the library that the         *)
(* notebook leaves to the installed build is the order sort_values gives   *)
(* to equal scores (see SortValues).                                       *)
(***************************************************************************)
PandasBuilds == {"argsort_reversed", "nargsort"}

Init ==
    /\ pc = "cell5"
    /\ pandas_build = "none"
    /\ names = {}
    /\ raised = "none"
    /\ ratings = EmptyTable
    /\ movies = EmptyTable
    /\ merged_data = <<>>
    /\ movie_matrix = EmptyFrame
    /\ movie = 0
    /\ collaborative_recommendation = <<>>
    /\ movie_features = EmptyFrame
    /\ content_recommendation = <<>>

ImportPandas ==
    /\ pc = "cell5"
    /\ \E b \in PandasBuilds : pandas_build' = b
    /\ names' = names \cup {"pd"}
    /\ pc' = "cell7"
    /\ UNCHANGED <<raised, ratings, movies, merged_data, movie_matrix, movie,
                   collaborative_recommendation, movie_features,
                   content_recommendation>>

\* ratings = pd.read_csv('ratings.csv')
LoadRatings ==
    /\ pc = "cell7"
    /\ \E t \in RatingTables : ratings' = t
    /\ names' = names \cup {"ratings"}
    /\ pc' = "cell11"
    /\ UNCHANGED <<pandas_build, raised, movies, merged_data, movie_matrix, movie,
                   collaborative_recommendation, movie_features,
                   content_recommendation>>

\* movies = pd.read_csv('movies.csv')
LoadMovies ==
    /\ pc = "cell11"
    /\ \E t \in MovieTablesFor(ratings) : movies' = t
    /\ names' = names \cup {"movies"}
    /\ pc' = "cell13"
    /\ UNCHANGED <<pandas_build, raised, ratings, merged_data, movie_matrix, movie,
                   collaborative_recommendation, movie_features,
                   content_recommendation>>

(***************************************************************************)
(* pd.merge(ratings, movies, on='movieId'): the inner join, in the order   *)
(* of the left rows, each with its matching right rows in their order.     *)
(***************************************************************************)
JoinRow(r, m) ==
    [userId |-> r.userId, movieId |-> r.movieId, rating |-> r.rating,
     title |-> m.title, genres |-> m.genres]

RECURSIVE MatchFirstRow(_, _)
MatchFirstRow(r, ms) ==
    IF ms = <<>> THEN <<>>
    ELSE IF Head(ms).movieId = r.movieId THEN <<JoinRow(r, Head(ms))>>
    ELSE MatchFirstRow(r, Tail(ms))

RECURSIVE MatchRows(_, _)
MatchRows(r, ms) ==
    IF ms = <<>> THEN <<>>
    ELSE (IF Head(ms).movieId = r.movieId THEN <<JoinRow(r, Head(ms))>> ELSE <<>>)
         \o MatchRows(r, Tail(ms))

RECURSIVE MergeRows(_, _)
MergeRows(rs, ms) ==
    IF rs = <<>> THEN <<>>
    ELSE MatchRows(Head(rs), ms) \o MergeRows(Tail(rs), ms)

PdMerge(left, right) == MergeRows(left.rows, right.rows)

Merge ==
    /\ pc = "cell13"
    /\ merged_data' = PdMerge(ratings, movies)
    /\ names' = names \cup {"merged_data"}
    /\ pc' = "cell18"
    /\ UNCHANGED <<pandas_build, raised, ratings, movies, movie_matrix, movie,
                   collaborative_recommendation, movie_features,
                   content_recommendation>>

(***************************************************************************)
(* merged_data.pivot_table(index='userId', columns='title',                *)
(* values='rating'): aggfunc defaults to the mean of the group; a          *)
(* (userId, title) pair with no row is NaN.  Then fillna(0).               *)
(***************************************************************************)
RatingsOf(md, u, t) ==
    LET hit(r) == r.userId = u /\ r.title = t
        sel == SelectSeq(md, hit)
    IN  [i \in 1..Len(sel) |-> sel[i].rating]

AggLast(s) == IF s = <<>> THEN NaN ELSE Rat(s[Len(s)], 1)

AggMean(s) == IF s = <<>> THEN NaN ELSE Rat(SumSeq(s), Len(s))

PivotTable(md) ==
    LET us == {md[i].userId : i \in 1..Len(md)}
        ts == {md[i].title : i \in 1..Len(md)}
    IN  [index |-> us,
         columns |-> SortedSeq(ts),
         values |-> [k \in us \X ts |-> AggMean(RatingsOf(md, k[1], k[2]))]]

FillnaOne(df, v) ==
    [df EXCEPT !.values = [k \in DOMAIN df.values |->
                              IF IsNaN(df.values[k]) THEN Rat(v + 1, 1) ELSE df.values[k]]]

Fillna(df, v) ==
    [df EXCEPT !.values = [k \in DOMAIN df.values |->
                              IF IsNaN(df.values[k]) THEN Rat(v, 1) ELSE df.values[k]]]

BuildMovieMatrix ==
    /\ pc = "cell18"
    /\ movie_matrix' = Fillna(PivotTable(merged_data), 0)
    /\ names' = names \cup {"movie_matrix"}
    /\ pc' = "cell20"
    /\ UNCHANGED <<pandas_build, raised, ratings, movies, merged_data, movie,
                   collaborative_recommendation, movie_features,
                   content_recommendation>>

(***************************************************************************)
(* DataFrame.corrwith(column): Pearson's r of every column with the given  *)
(* one, over all rows; NaN when either column has zero variance.  The two  *)
(* columns are brought to a common denominator D, and with n rows          *)
(*   r = (n Sxy - Sx Sy) / sqrt((n Sxx - Sx^2) (n Syy - Sy^2)).            *)
(***************************************************************************)
Column(df, c) == [r \in df.index |-> df.values[<<r, c>>]]

HasColumn(df, c) == c \in Range(df.columns)

PearsonZeroFill(rows, x, y) ==
    LET D == LCM(LCMOver(rows, [r \in rows |-> x[r][2]]),
                 LCMOver(rows, [r \in rows |-> y[r][2]]))
        xi == [r \in rows |-> x[r][1] * (D \div x[r][2])]
        yi == [r \in rows |-> y[r][1] * (D \div y[r][2])]
        n == Cardinality(rows)
        sx == SumOver(rows, xi)
        sy == SumOver(rows, yi)
        cxy == n * SumOver(rows, [r \in rows |-> xi[r] * yi[r]]) - sx * sy
        vx == n * SumOver(rows, [r \in rows |-> xi[r] * xi[r]]) - sx * sx
        vy == n * SumOver(rows, [r \in rows |-> yi[r] * yi[r]]) - sy * sy
    IN  IF vx = 0 \/ vy = 0 THEN Rat(0, 1) ELSE Rat(Sign(cxy) * cxy * cxy, vx * vy)

Pearson(rows, x, y) ==
    LET D == LCM(LCMOver(rows, [r \in rows |-> x[r][2]]),
                 LCMOver(rows, [r \in rows |-> y[r][2]]))
        xi == [r \in rows |-> x[r][1] * (D \div x[r][2])]
        yi == [r \in rows |-> y[r][1] * (D \div y[r][2])]
        n == Cardinality(rows)
        sx == SumOver(rows, xi)
        sy == SumOver(rows, yi)
        cxy == n * SumOver(rows, [r \in rows |-> xi[r] * yi[r]]) - sx * sy
        vx == n * SumOver(rows, [r \in rows |-> xi[r] * xi[r]]) - sx * sx
        vy == n * SumOver(rows, [r \in rows |-> yi[r] * yi[r]]) - sy * sy
    IN  IF vx = 0 \/ vy = 0 THEN NaN ELSE Rat(Sign(cxy) * cxy * cxy, vx * vy)

Corrwith(df, other) ==
    [i \in 1..Len(df.columns) |->
        [key |-> df.columns[i],
         corr |-> Pearson(df.index, Column(df, df.columns[i]), other)]]

(***************************************************************************)
(* Series.sort_values(ascending=False): kind defaults to 'quicksort' and   *)
(* na_position to 'last'.  The NaN entries are taken out and appended in   *)
(* their original order.  numpy's quicksort is an insertion sort on short  *)
(* arrays, and is not documented to keep equal keys in order; what a build *)
(* does with equal scores follows from how it turns the ascending argsort  *)
(* into a descending one:                                                  *)
(*   "argsort_reversed" (pandas up to 1.1): argsort, then reverse;         *)
(*   "nargsort" (pandas 1.2 on): reverse, argsort, reverse again.          *)
(***************************************************************************)
RECURSIVE InsertSorted(_, _)
InsertSorted(sorted, e) ==
    IF sorted = <<>> THEN <<e>>
    ELSE IF RatLess(e.corr, Head(sorted).corr) THEN <<e>> \o sorted
    ELSE <<Head(sorted)>> \o InsertSorted(Tail(sorted), e)

RECURSIVE ArgsortFrom(_, _)
ArgsortFrom(acc, s) ==
    IF s = <<>> THEN acc ELSE ArgsortFrom(InsertSorted(acc, Head(s)), Tail(s))

Argsort(s) == ArgsortFrom(<<>>, s)

IsGood(e) == ~IsNaN(e.corr)

IsBad(e) == IsNaN(e.corr)

SortValuesNaFirst(s, build) ==
    SelectSeq(s, IsBad) \o Reverse(Argsort(Reverse(SelectSeq(s, IsGood))))

SortValuesNaReversed(s, build) ==
    LET good == SelectSeq(s, IsGood)
    IN  (IF build = "argsort_reversed"
         THEN Reverse(Argsort(good))
         ELSE Reverse(Argsort(Reverse(good))))
        \o Reverse(SelectSeq(s, IsBad))

SortValues(s, build) ==
    LET good == SelectSeq(s, IsGood)
    IN  (IF build = "argsort_reversed"
         THEN Reverse(Argsort(good))
         ELSE Reverse(Argsort(Reverse(good))))
        \o SelectSeq(s, IsBad)

(***************************************************************************)
(* movie = '...'; corrwith(movie_matrix[movie]); sort_values.  The title   *)
(* is the reader's choice.  movie_matrix[movie] raises KeyError when the   *)
(* title is no column: the cell stops there, after binding movie.          *)
(***************************************************************************)
RankCollaborativeLenient ==
    /\ pc = "cell20"
    /\ \E m \in Titles :
        /\ movie' = m
        /\ collaborative_recommendation' =
               IF HasColumn(movie_matrix, m)
               THEN SortValues(Corrwith(movie_matrix, Column(movie_matrix, m)),
                               pandas_build)
               ELSE <<>>
    /\ names' = names \cup {"movie", "collaborative_recommendation"}
    /\ pc' = "cell26"
    /\ UNCHANGED <<pandas_build, raised, ratings, movies, merged_data, movie_matrix,
                   movie_features, content_recommendation>>

RankCollaborative ==
    /\ pc = "cell20"
    /\ \E m \in Titles :
        /\ movie' = m
        /\ IF HasColumn(movie_matrix, m)
           THEN /\ collaborative_recommendation' =
                       SortValues(Corrwith(movie_matrix, Column(movie_matrix, m)),
                                  pandas_build)
                /\ names' = names \cup {"movie", "collaborative_recommendation"}
                /\ pc' = "cell26"
                /\ UNCHANGED raised
           ELSE /\ raised' = "KeyError"
                /\ names' = names \cup {"movie"}
                /\ pc' = "failed"
                /\ UNCHANGED collaborative_recommendation
    /\ UNCHANGED <<pandas_build, ratings, movies, merged_data, movie_matrix,
                   movie_features, content_recommendation>>

(***************************************************************************)
(* movies['genres'] = movies['genres'].str.split('|'): the column of the   *)
(* loaded frame is replaced in place.                                      *)
(***************************************************************************)
RECURSIVE StrSplit(_, _)
StrSplit(s, sep) ==
    IF s = <<>> THEN << <<>> >>
    ELSE LET rest == StrSplit(Tail(s), sep)
         IN  IF Head(s) = sep THEN << <<>> >> \o rest
             ELSE << <<Head(s)>> \o Head(rest) >> \o Tail(rest)

SplitField(g) == ListField(StrSplit(g.val, "|"))

SplitGenres ==
    /\ pc = "cell26"
    /\ movies' = [movies EXCEPT !.rows =
                      [i \in 1..Len(movies.rows) |->
                          [movies.rows[i] EXCEPT !.genres = SplitField(@)]]]
    /\ pc' = "cell29"
    /\ UNCHANGED <<pandas_build, names, raised, ratings, merged_data, movie_matrix,
                   movie, collaborative_recommendation, movie_features,
                   content_recommendation>>

\* movies = movies.set_index('title')
SetIndex ==
    /\ pc = "cell29"
    /\ movies' = [movies EXCEPT !.index = "title"]
    /\ pc' = "cell30"
    /\ UNCHANGED <<pandas_build, names, raised, ratings, merged_data, movie_matrix,
                   movie, collaborative_recommendation, movie_features,
                   content_recommendation>>

(***************************************************************************)
(* pd.get_dummies(movies['genres'].explode()).sum(level=0).transpose()     *)
(*  explode: one row per element of the list, under the row's title;       *)
(*  get_dummies: one 0/1 column per distinct label;                        *)
(*  sum(level=0): the rows of one title added up, titles sorted;           *)
(*  transpose: labels become the rows, titles the columns.                 *)
(***************************************************************************)
RECURSIVE Explode(_)
Explode(rows) ==
    IF rows = <<>> THEN <<>>
    ELSE LET r == Head(rows)
         IN  [i \in 1..Len(r.genres.val) |-> [title |-> r.title, genres |-> r.genres.val[i]]]
             \o Explode(Tail(rows))

Labels(ex) == {ex[i].genres : i \in 1..Len(ex)}

GetDummies(ex) ==
    [i \in 1..Len(ex) |->
        [title |-> ex[i].title,
         dummies |-> [l \in Labels(ex) |-> IF ex[i].genres = l THEN 1 ELSE 0]]]

SumLevel0(d, labels) ==
    LET ts == {d[i].title : i \in 1..Len(d)}
    IN  [index |-> SortedSeq(ts),
         columns |-> labels,
         values |-> [k \in ts \X labels |->
                        SumOver({i \in 1..Len(d) : d[i].title = k[1]},
                                [i \in 1..Len(d) |-> d[i].dummies[k[2]]])]]

Transpose(g) ==
    [index |-> g.columns,
     columns |-> g.index,
     values |-> [k \in g.columns \X Range(g.index) |-> g.values[<<k[2], k[1]>>]]]

BuildFeatures(m) ==
    LET ex == Explode(m.rows)
    IN  Transpose(SumLevel0(GetDummies(ex), Labels(ex)))

BuildMovieFeatures ==
    /\ pc = "cell30"
    /\ movie_features' = BuildFeatures(movies)
    /\ names' = names \cup {"movie_features"}
    /\ pc' = "cell31"
    /\ UNCHANGED <<pandas_build, raised, ratings, movies, merged_data, movie_matrix,
                   movie, collaborative_recommendation, content_recommendation>>

\* corrwith works on floats: the integer cells become fractions n / 1
AsFloat(df) == [df EXCEPT !.values = [k \in DOMAIN df.values |-> Rat(df.values[k], 1)]]

RankContentOverwrites ==
    /\ pc = "cell31"
    /\ \E m \in Titles :
        /\ movie' = m
        /\ IF HasColumn(movie_features, m)
           THEN /\ collaborative_recommendation' =
                       SortValues(Corrwith(AsFloat(movie_features),
                                           Column(AsFloat(movie_features), m)),
                                  pandas_build)
                /\ pc' = "done"
                /\ UNCHANGED raised
           ELSE /\ raised' = "KeyError"
                /\ pc' = "failed"
                /\ UNCHANGED collaborative_recommendation
    /\ UNCHANGED <<pandas_build, names, ratings, movies, merged_data, movie_matrix,
                   movie_features, content_recommendation>>

RankContent ==
    /\ pc = "cell31"
    /\ \E m \in Titles :
        /\ movie' = m
        /\ IF HasColumn(movie_features, m)
           THEN /\ content_recommendation' =
                       SortValues(Corrwith(AsFloat(movie_features),
                                           Column(AsFloat(movie_features), m)),
                                  pandas_build)
                /\ names' = names \cup {"content_recommendation"}
                /\ pc' = "done"
                /\ UNCHANGED raised
           ELSE /\ raised' = "KeyError"
                /\ pc' = "failed"
                /\ UNCHANGED <<names, content_recommendation>>
    /\ UNCHANGED <<pandas_build, ratings, movies, merged_data, movie_matrix,
                   collaborative_recommendation, movie_features>>

Next ==
    \/ ImportPandas
    \/ LoadRatings
    \/ LoadMovies
    \/ Merge
    \/ BuildMovieMatrix
    \/ RankCollaborative
    \/ SplitGenres
    \/ SetIndex
    \/ BuildMovieFeatures
    \/ RankContent

Spec == Init /\ [][Next]_vars

(***************************************************************************)
(* What the properties below read off the two input files.                 *)
(***************************************************************************)
RatingRows == 1..Len(ratings.rows)

MovieRows == 1..Len(movies.rows)

\* the (rating record, catalogue row) pairs that put a rating of user u
\* under title t
RatedPairs(u, t) ==
    {p \in RatingRows \X MovieRows :
        /\ ratings.rows[p[1]].userId = u
        /\ ratings.rows[p[1]].movieId = movies.rows[p[2]].movieId
        /\ movies.rows[p[2]].title = t}

Matched(i) == \E j \in MovieRows : movies.rows[j].movieId = ratings.rows[i].movieId

\* the titles of the movies that some rating record rates
RatedTitles ==
    {movies.rows[j].title :
        j \in {k \in MovieRows :
                  \E i \in RatingRows : ratings.rows[i].movieId = movies.rows[k].movieId}}

Cell(df, r, c) == df.values[<<r, c>>]

Constant(df, c) == \A r1, r2 \in df.index : Cell(df, r1, c) = Cell(df, r2, c)

Position(rec, k) == CHOOSE i \in 1..Len(rec) : rec[i].key = k

One == <<1, 1>>

Zero == <<0, 1>>

C2_FeatureCellsBinary ==
    "movie_features" \in names
    => \A l \in movie_features.index : \A t \in Range(movie_features.columns) :
          /\ Cell(movie_features, l, t) \in {0, 1}
          /\ Cell(movie_features, l, t) = 1
             <=> \E j \in MovieRows :
                    movies.rows[j].title = t /\ l \in Range(movies.rows[j].genres.val)

SelfFirst(rec, target) ==
    /\ \E i \in 1..Len(rec) : rec[i].key = target /\ rec[i].corr = One
    /\ rec[1].key = target

SelfRanked(rec, df, target) ==
    /\ Cardinality({i \in 1..Len(rec) : rec[i].key = target}) = 1
    /\ IF Constant(df, target)
       THEN \A i \in 1..Len(rec) : IsNaN(rec[i].corr)
       ELSE /\ rec[Position(rec, target)].corr = One
            /\ \A i \in 1..Len(rec) : i < Position(rec, target) => rec[i].corr = One

Ranked(rec) ==
    \A i, j \in 1..Len(rec) :
        (i < j /\ ~IsNaN(rec[j].corr))
        => (~IsNaN(rec[i].corr) /\ ~RatLess(rec[i].corr, rec[j].corr))

\* C4: in either ranking the defined scores are in non-increasing order and
\* every undefined score comes after every defined one.
C4_RankingOrder ==
    Ranked(collaborative_recommendation) /\ Ranked(content_recommendation)

\* a content ranking of three columns, scores falling from 1 to a lower
\* defined score to an undefined one, that is not in column order
C4_Witness ==
    /\ pc = "done"
    /\ Len(content_recommendation) = 3
    /\ RatLess(content_recommendation[2].corr, content_recommendation[1].corr)
    /\ ~IsNaN(content_recommendation[2].corr)
    /\ IsNaN(content_recommendation[3].corr)
    /\ content_recommendation[3].key < content_recommendation[1].key

TiesInColumnOrder(rec) ==
    \A i, j \in 1..Len(rec) :
        (i < j /\ rec[i].corr = rec[j].corr) => rec[i].key < rec[j].key

\* C5 as stated: two columns with equal score appear in the ranking in the
\* order of their columns in the matrix.
C5_StableTies ==
    TiesInColumnOrder(collaborative_recommendation)
    /\ TiesInColumnOrder(content_recommendation)

UndefinedInColumnOrder(rec) ==
    \A i, j \in 1..Len(rec) :
        (i < j /\ IsNaN(rec[i].corr) /\ IsNaN(rec[j].corr)) => rec[i].key < rec[j].key

\* C5 amended: two columns whose score is undefined appear in the ranking in
\* the order of their columns in the matrix; the order of two columns with
\* equal defined score is left to the installed build.
C5_UndefinedKeepColumnOrder ==
    UndefinedInColumnOrder(collaborative_recommendation)
    /\ UndefinedInColumnOrder(content_recommendation)

\* a content ranking that moved the target ahead of two undefined columns
C5_Witness ==
    /\ pc = "done"
    /\ Len(content_recommendation) = 3
    /\ content_recommendation[1].key = 3
    /\ IsNaN(content_recommendation[2].corr)
    /\ IsNaN(content_recommendation[3].corr)

FailsWith(exception) ==
    /\ (pc = "failed" /\ "movie_features" \notin names)
       => /\ raised = exception
          /\ ~HasColumn(movie_matrix, movie)
          /\ "collaborative_recommendation" \notin names
          /\ collaborative_recommendation = <<>>
    /\ (pc = "failed" /\ "movie_features" \in names)
       => /\ raised = exception
          /\ ~HasColumn(movie_features, movie)
          /\ "content_recommendation" \notin names
          /\ content_recommendation = <<>>
    /\ pc = "cell26" => HasColumn(movie_matrix, movie)
    /\ pc = "done" => HasColumn(movie_features, movie)

\* C6 as stated: a ranking step whose target is no column of the matrix
\* fails with UnknownTargetError, ends the run and binds no ranking.
C6_UnknownTargetError == FailsWith("UnknownTargetError")

\* C6 amended: a ranking step whose target is no column of the matrix fails
\* with the KeyError of the column lookup, ends the run and binds no ranking;
\* a ranking step that goes on had its target among the columns.
C6_KeyError == FailsWith("KeyError")

\* the content ranking asked for a title that is no column of movie_features
C6_Witness ==
    /\ pc = "failed"
    /\ "movie_features" \in names
    /\ raised = "KeyError"
    /\ ~HasColumn(movie_features, movie)
    /\ content_recommendation = <<>>

\* C7 as stated: movie_matrix has one row per distinct userId of the rating
\* records and one column per distinct title of the rated movies.
C7_Dimensions ==
    "movie_matrix" \in names
    => /\ Cardinality(movie_matrix.index)
            = Cardinality({ratings.rows[i].userId : i \in RatingRows})
       /\ Len(movie_matrix.columns)
            = Cardinality(RatedTitles)

\* C7 amended: movie_matrix has one row per distinct userId of the rating
\* records whose movieId occurs in movies, and one column per distinct title
\* of the rated movies.
C7_DimensionsOfMerged ==
    "movie_matrix" \in names
    => /\ Cardinality(movie_matrix.index)
            = Cardinality({ratings.rows[i].userId : i \in {k \in RatingRows : Matched(k)}})
       /\ Len(movie_matrix.columns) = Cardinality(Range(movie_matrix.columns))
       /\ Len(movie_matrix.columns)
            = Cardinality(RatedTitles)

\* a matrix that lacks the row of a user whose only rating is of an unknown
\* movieId, and has two columns from one movieId listed under two titles
C7_Witness ==
    /\ "movie_matrix" \in names
    /\ \E i \in RatingRows :
          ~Matched(i) /\ ratings.rows[i].userId \notin movie_matrix.index
    /\ Len(movie_matrix.columns) = 2
    /\ \E j, k \in MovieRows :
          j # k /\ movies.rows[j].movieId = movies.rows[k].movieId

\* C9 as stated: ratings and movies never change once loaded, movie_matrix
\* and movie_features never change once built, and the content steps leave
\* movie_matrix and collaborative_recommendation alone.
C9_NothingChanges ==
    [][/\ "ratings" \in names => ratings' = ratings
       /\ "movies" \in names => movies' = movies
       /\ "movie_matrix" \in names => movie_matrix' = movie_matrix
       /\ "movie_features" \in names => movie_features' = movie_features
       /\ pc \in {"cell26", "cell29", "cell30", "cell31"}
          => collaborative_recommendation' = collaborative_recommendation]_vars

\* C9 amended: ratings never changes once loaded; movies changes only in the
\* genre split and the set_index step, which replace its genres column and
\* its index and keep its rows' movieId and title; movie_matrix and
\* movie_features never change once built, and the content steps leave
\* movie_matrix and collaborative_recommendation alone.
C9_OnlyMoviesChanges ==
    [][/\ "ratings" \in names => ratings' = ratings
       /\ ("movies" \in names /\ movies'.index # movies.index) => pc = "cell29"
       /\ ("movies" \in names /\ movies'.rows # movies.rows)
          => /\ pc = "cell26"
             /\ Len(movies'.rows) = Len(movies.rows)
             /\ \A i \in MovieRows :
                   /\ movies'.rows[i].movieId = movies.rows[i].movieId
                   /\ movies'.rows[i].title = movies.rows[i].title
       /\ "movie_matrix" \in names => movie_matrix' = movie_matrix
       /\ "movie_features" \in names => movie_features' = movie_features
       /\ pc \in {"cell26", "cell29", "cell30", "cell31"}
          => collaborative_recommendation' = collaborative_recommendation]_vars

\* the run is over, movies is no longer the frame that was loaded, and both
\* rankings are bound
C9_Witness ==
    /\ pc = "done"
    /\ movies.index = "title"
    /\ \A i \in MovieRows : movies.rows[i].genres.kind = "list"
    /\ {"collaborative_recommendation", "content_recommendation"} \subseteq names

====
